---- MODULE Spec2Model ----
(***************************************************************************)
(* A model of filesystem.h: the path-template engine, the read-side        *)
(* resolver, the write sandbox and the public operations, over an          *)
(* abstract POSIX filesystem.                                              *)
(*                                                                         *)
(* C strings are sequences of one-character strings.  The filesystem is a  *)
(* function from canonical absolute paths (sequences of segment names) to  *)
(* entries [kind, data].  Modification times are not modelled.             *)
(***************************************************************************)
EXTENDS Integers, Sequences, FiniteSets, TLC

(* ------------------------------------------------------------------ *)
(* Program constants                                                  *)
(* ------------------------------------------------------------------ *)

FS_ESUCCESS == 0
FS_EFAILURE == -1
FS_ETOOLONG == -2
FS_ENOWRITEDIR == -3
FS_EWRITEFAIL == -4
FS_EMKDIRFAIL == -5
FS_ENOSEARCHPATH == -6
FS_EREMOVE == -7

FS_MAX_PATH == 256

FS_PATH_SEP == ";"
FS_PATH_MARK == "?"

(* ------------------------------------------------------------------ *)
(* Bounds of the model                                                *)
(* ------------------------------------------------------------------ *)

\* number of API calls in one behaviour
MaxOps == 3

(* ------------------------------------------------------------------ *)
(* C string helpers                                                   *)
(* ------------------------------------------------------------------ *)

\* LET x == v IN F(x), with v evaluated once
Bind(v, F(_)) == CHOOSE y \in {F(x) : x \in {v}} : TRUE

Max(a, b) == IF a >= b THEN a ELSE b

\* the least / greatest element of a non-empty set of numbers
MinOf(S) == CHOOSE j \in S : \A k \in S : j <= k

MaxOf(S) == CHOOSE j \in S : \A k \in S : j >= k

\* strchr from position i (1-based): index of the first c at or after i, 0 if none
IndexFrom(s, c, i) ==
  Bind({j \in i..Len(s) : s[j] = c},
       LAMBDA S : IF S = {} THEN 0 ELSE MinOf(S))

\* strrchr: index of the last c, 0 if none
LastIndex(s, c) ==
  Bind({j \in 1..Len(s) : s[j] = c},
       LAMBDA S : IF S = {} THEN 0 ELSE MaxOf(S))

\* strstr(s, "..") != NULL
HasDotDot(s) == \E j \in 1..(Len(s) - 1) : s[j] = "." /\ s[j + 1] = "."

(* ------------------------------------------------------------------ *)
(* Template engine                                                    *)
(* ------------------------------------------------------------------ *)

\* One round of the gsub loop at mark position pch: memcpy of the text
\* before the mark, memcpy of the filename, and only then the comparison of
\* n with FS_MAX_PATH.  buf holds the bytes copied so far (n = Len(buf)), hi
\* the number of leading buffer cells stored so far.
RECURSIVE ConcatLoop(_, _, _, _, _)
ConcatRound(path, i, pch, filename, buf, hi) ==
  Bind(buf \o SubSeq(path, i, pch - 1) \o filename,
       LAMBDA b2 :
         IF Len(b2) >= FS_MAX_PATH
           THEN [err |-> FS_ETOOLONG, buf |-> b2, stored |-> Max(hi, Len(b2))]
           ELSE ConcatLoop(path, pch + 1, filename, b2, Max(hi, Len(b2))))

\* The gsub loop from position i of path; after the last mark the
\* terminator is stored at buf[n] and nothing more of path is copied.
ConcatLoop(path, i, filename, buf, hi) ==
  Bind(IndexFrom(path, FS_PATH_MARK, i),
       LAMBDA pch :
         IF pch = 0
           THEN [err |-> FS_ESUCCESS, buf |-> buf, stored |-> Max(hi, Len(buf) + 1)]
           ELSE ConcatRound(path, i, pch, filename, buf, hi))

\* _fs_concat_path(buf, path, filename): err, the bytes written to buf, and
\* stored, the count of leading cells of buf that were stored to (cell
\* indices 0..stored-1), the terminator included.
_fs_concat_path(path, filename) == ConcatLoop(path, 1, filename, <<>>, 0)

\* the call stored outside char buf[FS_MAX_PATH]
Overflows(r) == r.stored > FS_MAX_PATH

\* _fs_get_template applied until it returns NULL: the templates of a
\* search path in order, separators skipped.
RECURSIVE TemplatesFrom(_, _)
TemplatesFrom(path, i) ==
  IF i > Len(path) THEN <<>>
  ELSE IF path[i] = FS_PATH_SEP THEN TemplatesFrom(path, i + 1)
  ELSE Bind(IndexFrom(path, FS_PATH_SEP, i),
            LAMBDA t :
              IF t = 0 THEN <<SubSeq(path, i, Len(path))>>
              ELSE <<SubSeq(path, i, t - 1)>> \o TemplatesFrom(path, t))

_fs_get_template(path) == TemplatesFrom(path, 1)

(* ------------------------------------------------------------------ *)
(* The backing filesystem (POSIX path resolution, stat, mkdir, fopen,  *)
(* fwrite, remove) as the library calls it                             *)
(* ------------------------------------------------------------------ *)

\* the process's working directory, /h
CWD == << <<"h">> >>

\* st_size of a directory: some positive number
DIR_SIZE == 1

Parent(p) == IF p = <<>> THEN <<>> ELSE SubSeq(p, 1, Len(p) - 1)

Exists(disk, p) == p \in DOMAIN disk

IsDir(disk, p) == p \in DOMAIN disk /\ disk[p].kind = "dir"

IsReg(disk, p) == p \in DOMAIN disk /\ disk[p].kind = "reg"

Children(disk, p) ==
  {q \in DOMAIN disk : Len(q) = Len(p) + 1 /\ SubSeq(q, 1, Len(p)) = p}

\* the disk with entry e at p / without p
Put(disk, p, e) ==
  [q \in (DOMAIN disk) \cup {p} |-> IF q = p THEN e ELSE disk[q]]

Drop(disk, p) == [q \in (DOMAIN disk) \ {p} |-> disk[q]]

\* the '/'-separated components of a path string from position i on
RECURSIVE SplitFrom(_, _)
SplitFrom(s, i) ==
  Bind(IndexFrom(s, "/", i),
       LAMBDA t :
         IF t = 0 THEN <<SubSeq(s, i, Len(s))>>
         ELSE <<SubSeq(s, i, t - 1)>> \o SplitFrom(s, t + 1))

\* One step of a path walk from directory d over component c: "." stays,
\* ".." goes to the parent (the root is its own parent), an empty
\* component is skipped, a name is looked up in d.
Step(d, c) ==
  IF c = <<>> \/ c = <<".">> THEN d
  ELSE IF c = <<".", ".">> THEN Parent(d)
  ELSE d \o <<c>>

\* Path walk from directory d over comps[k..]: every non-empty component
\* is looked up in an existing directory.
RECURSIVE Walk(_, _, _, _)
Walk(disk, d, comps, k) ==
  IF k > Len(comps) THEN [ok |-> TRUE, at |-> d]
  ELSE IF comps[k] # <<>> /\ ~IsDir(disk, d) THEN [ok |-> FALSE, at |-> d]
  ELSE Bind(Step(d, comps[k]), LAMBDA d2 : Walk(disk, d2, comps, k + 1))

\* the last non-empty component of comps, <<>> if there is none
LastComp(comps) ==
  Bind(SelectSeq(comps, LAMBDA c : c # <<>>),
       LAMBDA ne : IF ne = <<>> THEN <<>> ELSE ne[Len(ne)])

\* Resolution of a path string: ok (every directory on the way exists),
\* at (the canonical place named, which may not exist), lastc (the last
\* non-empty component), mustdir (the string ends with a '/').
ResolveFrom(disk, s, start, comps) ==
  Bind(Walk(disk, start, comps, 1),
       LAMBDA w : [ok      |-> w.ok /\ IsDir(disk, start),
                   at      |-> w.at,
                   lastc   |-> LastComp(comps),
                   mustdir |-> s[Len(s)] = "/"])

Resolve(disk, s) ==
  IF s = <<>> THEN [ok |-> FALSE, at |-> <<>>, lastc |-> <<>>, mustdir |-> FALSE]
  ELSE Bind(SplitFrom(s, 1),
            LAMBDA comps :
              ResolveFrom(disk, s, IF s[1] = "/" THEN <<>> ELSE CWD, comps))

NoStat == [ok |-> FALSE, kind |-> "none", size |-> 0]

\* stat(2): ok and the kind and st_size of what the path names
os_stat(disk, s) ==
  Bind(Resolve(disk, s),
       LAMBDA r :
         IF r.ok /\ Exists(disk, r.at) /\ (r.mustdir => IsDir(disk, r.at))
           THEN [ok |-> TRUE, kind |-> disk[r.at].kind,
                 size |-> IF disk[r.at].kind = "dir" THEN DIR_SIZE
                          ELSE Len(disk[r.at].data)]
           ELSE NoStat)

\* mkdir(2): creates one directory whose parent exists; fails on an
\* existing name
os_mkdir(disk, s) ==
  Bind(Resolve(disk, s),
       LAMBDA r :
         IF r.ok /\ ~Exists(disk, r.at) /\ IsDir(disk, Parent(r.at))
           THEN [ok |-> TRUE,
                 disk |-> Put(disk, r.at, [kind |-> "dir", data |-> <<>>])]
           ELSE [ok |-> FALSE, disk |-> disk])

\* fopen(3) in mode "w" (create or truncate), "a" (create or keep) or
\* "rb" (must exist); "w" and "a" fail on a directory
os_fopen(disk, s, mode) ==
  Bind(Resolve(disk, s),
       LAMBDA r :
         IF ~r.ok \/ (r.mustdir /\ ~IsDir(disk, r.at))
           THEN [ok |-> FALSE, disk |-> disk, at |-> r.at]
         ELSE IF mode = "rb"
           THEN [ok |-> Exists(disk, r.at), disk |-> disk, at |-> r.at]
         ELSE IF Exists(disk, r.at) /\ ~IsReg(disk, r.at)
           THEN [ok |-> FALSE, disk |-> disk, at |-> r.at]
         ELSE IF mode = "a" /\ Exists(disk, r.at)
           THEN [ok |-> TRUE, disk |-> disk, at |-> r.at]
         ELSE [ok |-> TRUE, at |-> r.at,
               disk |-> Put(disk, r.at, [kind |-> "reg", data |-> <<>>])])

\* fwrite(3) then fclose(3) on a stream opened for writing at p: k bytes
\* of data reach the end of the file
os_fwrite(disk, p, data, k) ==
  Put(disk, p, [kind |-> "reg", data |-> disk[p].data \o SubSeq(data, 1, k)])

\* remove(3): unlink for a file, rmdir for an empty directory
os_remove(disk, s) ==
  Bind(Resolve(disk, s),
       LAMBDA r :
         IF ~r.ok \/ ~Exists(disk, r.at) THEN [ok |-> FALSE, disk |-> disk]
         ELSE IF IsDir(disk, r.at)
           THEN IF Children(disk, r.at) = {} /\ r.at # <<>>
                   /\ r.lastc # <<".">> /\ r.lastc # <<".", ".">>
                  THEN [ok |-> TRUE, disk |-> Drop(disk, r.at)]
                  ELSE [ok |-> FALSE, disk |-> disk]
         ELSE IF r.mustdir THEN [ok |-> FALSE, disk |-> disk]
         ELSE [ok |-> TRUE, disk |-> Drop(disk, r.at)])

(* ------------------------------------------------------------------ *)
(* Library internals                                                  *)
(* ------------------------------------------------------------------ *)

\* _FS_SANITY_WRITE_DIR / _FS_SANITY_SEARCH_PATH: the configured string is
\* empty
\* (mutant) the write directory is never reported as unset
_FS_SANITY_WRITE_DIR_Never(wd) == FALSE

_FS_SANITY_WRITE_DIR(wd) == wd = <<>>

_FS_SANITY_SEARCH_PATH(sp) == sp = <<>>

\* what _fs_check_search_path hands back: err, the path in buf, its stat,
\* the index of the template that ended the search, and whether a
\* substitution stored outside the path buffer
Probe(err, buf, st, tpl, overflow) ==
  [err |-> err, buf |-> buf, st |-> st, tpl |-> tpl, overflow |-> overflow]

\* The loop of _fs_check_search_path over the templates ts[k..]: the first
\* substitution that fails ends the search with its error, the first
\* candidate that stat finds ends it with success.
RECURSIVE SearchLoop(_, _, _, _)
\* (mutant) the search goes on after a match, so the last match wins
SearchStat_LastWins(disk, ts, k, filename, c) ==
  Bind(SearchLoop(disk, ts, k + 1, filename),
       LAMBDA later :
         IF later.err = FS_ESUCCESS \/ ~os_stat(disk, c.buf).ok THEN later
         ELSE Probe(FS_ESUCCESS, c.buf, os_stat(disk, c.buf), k, FALSE))

SearchStat(disk, ts, k, filename, c) ==
  Bind(os_stat(disk, c.buf),
       LAMBDA st :
         IF st.ok THEN Probe(FS_ESUCCESS, c.buf, st, k, FALSE)
         ELSE SearchLoop(disk, ts, k + 1, filename))

SearchLoop(disk, ts, k, filename) ==
  IF k > Len(ts) THEN Probe(FS_EFAILURE, <<>>, NoStat, 0, FALSE)
  ELSE Bind(_fs_concat_path(ts[k], filename),
            LAMBDA c :
              IF c.err # FS_ESUCCESS
                THEN Probe(c.err, c.buf, NoStat, k, Overflows(c))
                ELSE SearchStat(disk, ts, k, filename, c))

_fs_check_search_path(disk, sp, filename) ==
  IF _FS_SANITY_SEARCH_PATH(sp)
    THEN Probe(FS_ENOSEARCHPATH, <<>>, NoStat, 0, FALSE)
    ELSE Bind(_fs_get_template(sp),
              LAMBDA ts : SearchLoop(disk, ts, 1, filename))

\* _fs_get_type: stat follows symbolic links, so S_ISLNK never holds
_fs_get_type(disk, sp, filename) ==
  Bind(_fs_check_search_path(disk, sp, filename),
       LAMBDA r :
         IF r.err # FS_ESUCCESS THEN "none"
         ELSE IF r.st.kind = "reg" THEN "reg"
         ELSE IF r.st.kind = "dir" THEN "dir"
         ELSE "none")

\* _fs_make_dirs(path): the directories of every '/'-prefix of path, the
\* shortest first; only the result of the last mkdir is returned
RECURSIVE _fs_make_dirs(_, _)
\* (mutant) a directory that is already there counts as made
MkdirLast_Tolerant(disk, path) ==
  Bind(os_mkdir(disk, path),
       LAMBDA m : [ret |-> IF m.ok \/ os_stat(disk, path).kind = "dir"
                             THEN FS_ESUCCESS ELSE FS_EMKDIRFAIL,
                   disk |-> m.disk])

MkdirLast(disk, path) ==
  Bind(os_mkdir(disk, path),
       LAMBDA m : [ret |-> IF m.ok THEN FS_ESUCCESS ELSE FS_EMKDIRFAIL,
                   disk |-> m.disk])

\* (mutant) only the directory itself is made, none of its ancestors
_fs_make_dirs_LeafOnly(disk, path) == MkdirLast(disk, path)

_fs_make_dirs(disk, path) ==
  Bind(LastIndex(path, "/"),
       LAMBDA s :
         IF s # 0
           THEN Bind(_fs_make_dirs(disk, SubSeq(path, 1, s - 1)).disk,
                     LAMBDA d1 : MkdirLast(d1, path))
           ELSE MkdirLast(disk, path))

\* (mutant) no directory is made before the file is opened
_FS_CREATE_DIR_TREE_None(disk, buf) == disk

\* _FS_CREATE_DIR_TREE(): the tree of everything before the last '/' of buf
_FS_CREATE_DIR_TREE(disk, buf) ==
  Bind(LastIndex(buf, "/"),
       LAMBDA s :
         IF s # 0 THEN _fs_make_dirs(disk, SubSeq(buf, 1, s - 1)).disk
         ELSE disk)

\* fwrite and fclose of _fs_write_to_file_ext on the stream f.  flt is what
\* the system does to the call: fwrite may stop after flt.k bytes.
WriteStream(f, data, flt) ==
  Bind(IF flt.kind = "short" /\ flt.k < Len(data) THEN flt.k ELSE Len(data),
       LAMBDA wsize :
         [ret  |-> IF wsize = Len(data) THEN FS_ESUCCESS ELSE FS_EWRITEFAIL,
          disk |-> os_fwrite(f.disk, f.at, data, wsize)])

\* _fs_write_to_file_ext(path, mode, desc); with flt.kind = "open" the
\* system refuses the fopen
_fs_write_to_file_ext(disk, path, mode, data, flt) ==
  IF HasDotDot(path) THEN [ret |-> FS_EWRITEFAIL, disk |-> disk]
  ELSE Bind(os_fopen(disk, path, mode),
            LAMBDA f :
              IF ~f.ok \/ flt.kind = "open"
                THEN [ret |-> FS_EWRITEFAIL, disk |-> disk]
                ELSE WriteStream(f, data, flt))

(* ------------------------------------------------------------------ *)
(* Public operations, as functions of the configuration and the disk   *)
(* ------------------------------------------------------------------ *)

\* fs_set_search_path / fs_set_write_dir: the new value of the string
fs_set_path(old, path) ==
  IF Len(path) >= FS_MAX_PATH
    THEN [ret |-> FS_ETOOLONG, val |-> old]
    ELSE [ret |-> FS_ESUCCESS, val |-> path]

fs_exists(disk, sp, name) ==
  IF _FS_SANITY_SEARCH_PATH(sp) THEN FS_ENOSEARCHPATH
  ELSE IF _fs_get_type(disk, sp, name) # "none" THEN FS_ESUCCESS
  ELSE FS_EFAILURE

fs_get_info(disk, sp, name) ==
  IF _FS_SANITY_SEARCH_PATH(sp)
    THEN [ret |-> FS_ENOSEARCHPATH, kind |-> "none", size |-> 0, overflow |-> FALSE]
    ELSE Bind(_fs_check_search_path(disk, sp, name),
              LAMBDA r :
                IF r.err # FS_ESUCCESS
                  THEN [ret |-> r.err, kind |-> "none", size |-> 0,
                        overflow |-> r.overflow]
                  ELSE [ret  |-> FS_ESUCCESS,
                        kind |-> IF r.st.kind \in {"reg", "dir"} THEN r.st.kind
                                 ELSE "none",
                        size |-> r.st.size, overflow |-> FALSE])

\* what fs_read hands back.  null: NULL is returned; size: *size; data: the
\* bytes fread put in the buffer; uninit: the buffer was returned without
\* fread filling it (the path is a directory); leak: the FILE was not
\* closed.
NoBuffer(leak, overflow) ==
  [null |-> TRUE, size |-> 0, data |-> <<>>, uninit |-> FALSE,
   leak |-> leak, overflow |-> overflow]

\* fs_read after a successful probe r; flt is what the system does to the
\* call: fopen or malloc may fail
ReadMatched(disk, r, flt) ==
  Bind(os_fopen(disk, r.buf, "rb"),
       LAMBDA f :
         IF ~f.ok \/ flt.kind = "open" THEN NoBuffer(FALSE, FALSE)
         ELSE IF flt.kind = "alloc" THEN NoBuffer(TRUE, FALSE)
         ELSE [null |-> FALSE, size |-> r.st.size,
               data |-> IF IsReg(disk, f.at) THEN disk[f.at].data ELSE <<>>,
               uninit |-> IsDir(disk, f.at), leak |-> FALSE,
               overflow |-> FALSE])

fs_read(disk, sp, name, flt) ==
  Bind(_fs_check_search_path(disk, sp, name),
       LAMBDA r :
         IF r.err # FS_ESUCCESS THEN NoBuffer(FALSE, r.overflow)
         ELSE ReadMatched(disk, r, flt))

\* what a write-side operation hands back
Outcome(ret, disk, overflow) == [ret |-> ret, disk |-> disk, overflow |-> overflow]

\* fs_write and fs_append differ in the fopen mode only
WriteOrAppend(disk, wd, name, mode, data, flt) ==
  IF _FS_SANITY_WRITE_DIR(wd) THEN Outcome(FS_ENOWRITEDIR, disk, FALSE)
  ELSE Bind(_fs_concat_path(wd, name),
            LAMBDA c :
              IF c.err # FS_ESUCCESS THEN Outcome(c.err, disk, Overflows(c))
              ELSE Bind(_fs_write_to_file_ext(_FS_CREATE_DIR_TREE(disk, c.buf),
                                              c.buf, mode, data, flt),
                        LAMBDA w : Outcome(w.ret, w.disk, FALSE)))

\* (mutant) fs_write opens the file as fs_append does
fs_write_Keep(disk, wd, name, data, flt) ==
  WriteOrAppend(disk, wd, name, "a", data, flt)

fs_write(disk, wd, name, data, flt) == WriteOrAppend(disk, wd, name, "w", data, flt)

\* (mutant) fs_append opens the file as fs_write does
fs_append_Truncate(disk, wd, name, data, flt) ==
  WriteOrAppend(disk, wd, name, "w", data, flt)

fs_append(disk, wd, name, data, flt) == WriteOrAppend(disk, wd, name, "a", data, flt)

fs_mkdir(disk, wd, path) ==
  IF _FS_SANITY_WRITE_DIR(wd) THEN Outcome(FS_ENOWRITEDIR, disk, FALSE)
  ELSE Bind(_fs_concat_path(wd, path),
            LAMBDA c :
              IF c.err # FS_ESUCCESS THEN Outcome(c.err, disk, Overflows(c))
              ELSE Bind(_fs_make_dirs(disk, c.buf),
                        LAMBDA m : Outcome(m.ret, m.disk, FALSE)))

\* (mutant) the result of remove is not looked at
fs_delete_Blind(disk, wd, name) ==
  IF _FS_SANITY_WRITE_DIR(wd) THEN Outcome(FS_ENOWRITEDIR, disk, FALSE)
  ELSE Bind(_fs_concat_path(wd, name),
            LAMBDA c :
              IF c.err # FS_ESUCCESS THEN Outcome(c.err, disk, Overflows(c))
              ELSE Outcome(FS_ESUCCESS, os_remove(disk, c.buf).disk, FALSE))

fs_delete(disk, wd, name) ==
  IF _FS_SANITY_WRITE_DIR(wd) THEN Outcome(FS_ENOWRITEDIR, disk, FALSE)
  ELSE Bind(_fs_concat_path(wd, name),
            LAMBDA c :
              IF c.err # FS_ESUCCESS THEN Outcome(c.err, disk, Overflows(c))
              ELSE Bind(os_remove(disk, c.buf),
                        LAMBDA m :
                          Outcome(IF m.ok THEN FS_ESUCCESS ELSE FS_EREMOVE,
                                  m.disk, FALSE)))

(* ------------------------------------------------------------------ *)
(* Inputs                                                             *)
(* ------------------------------------------------------------------ *)

NameFoo == <<"f", "o", "o">>
NameBar == <<"b", "a", "r">>
NameFooBar == NameFoo \o <<"/">> \o NameBar
NameUp == <<".", ".", "/", "x", "/", "f">>
NameLong == [i \in 1..FS_MAX_PATH |-> "n"]

Names == {NameFoo, NameFooBar, NameUp, NameLong}

TplHere == <<".", "/", "?">>
TplW == <<"w", "/", "?">>
\* two templates, w/? before ./?
PathWHere == TplW \o <<";">> \o TplHere
\* a template of FS_MAX_PATH - 7 characters and the mark, before ./?
PathDeepHere == [i \in 1..(FS_MAX_PATH - 7) |-> "d"] \o <<"?", ";">> \o TplHere

WriteDirs == {<<>>, TplHere, TplW, NameLong}
SearchPaths == {<<>>, TplHere, PathWHere, PathDeepHere, NameLong}

Payloads == {<<1>>, <<2, 3>>}

\* what an uninitialised buffer cell may hold
Bytes == {0, 1}

NoFault == [kind |-> "none", k |-> 0]
WriteFaults(data) ==
  {NoFault, [kind |-> "open", k |-> 0]}
    \cup {[kind |-> "short", k |-> j] : j \in 0..(Len(data) - 1)}
ReadFaults == {NoFault, [kind |-> "open", k |-> 0], [kind |-> "alloc", k |-> 0]}

Dir == [kind |-> "dir", data |-> <<>>]
File(d) == [kind |-> "reg", data |-> d]

\* the disks a process may start on: /h alone; directories /h/foo/bar;
\* files /h/foo and /h/w/foo
DiskEmpty == (<<>> :> Dir) @@ (CWD :> Dir)
DiskTree == DiskEmpty @@ ((CWD \o <<NameFoo>>) :> Dir)
              @@ ((CWD \o <<NameFoo, NameBar>>) :> Dir)
DiskFiles == DiskEmpty @@ ((CWD \o <<NameFoo>>) :> File(<<2, 3>>))
               @@ ((CWD \o << <<"w">> >>) :> Dir)
               @@ ((CWD \o << <<"w">>, NameFoo>>) :> File(<<1>>))

InitialDisks == {DiskEmpty, DiskTree, DiskFiles}

(* ------------------------------------------------------------------ *)
(* The state machine: one action per API call                         *)
(* ------------------------------------------------------------------ *)

VARIABLES
  search_path,  \* _fs_search_path
  write_dir,    \* _fs_write_dir
  disk,         \* the backing filesystem
  disk_before,  \* the disk when the last call was made
  last,         \* the last call: its arguments and what it returned
  nops,         \* calls made so far
  pc,           \* "ready", or "crashed" once a call has ended the process
  open_files,   \* FILE streams opened and not yet closed
  cc_path,      \* _fs_concat_path on its own: the template given
  cc_name,      \* ... the filename given
  cc_out        \* ... "none" before the call, then what it returned

vars == <<search_path, write_dir, disk, disk_before, last, nops, pc, open_files,
          cc_path, cc_name, cc_out>>

cc_vars == <<cc_path, cc_name, cc_out>>
api_vars == <<search_path, write_dir, disk, disk_before, last, nops, pc, open_files>>

NoCall ==
  [op |-> "none", name |-> <<>>, data |-> <<>>, flt |-> NoFault,
   ret |-> FS_ESUCCESS, null |-> FALSE, kind |-> "none", size |-> 0]

Init ==
  /\ search_path = <<>>
  /\ write_dir = <<>>
  /\ disk \in InitialDisks
  /\ disk_before = disk
  /\ last = NoCall
  /\ nops = 0
  /\ pc = "ready"
  /\ open_files = 0
  /\ cc_path = <<>>
  /\ cc_name = <<>>
  /\ cc_out = [done |-> FALSE, err |-> FS_ESUCCESS, buf |-> <<>>, stored |-> 0]

CanCall == pc = "ready" /\ nops < MaxOps

\* the call returns rec and leaves the disk d; a call that stored outside
\* its path buffer may instead end the process
Returns(rec, d, overflow) ==
  /\ last' = rec
  /\ disk_before' = disk
  /\ nops' = nops + 1
  /\ \/ pc' = "ready" /\ disk' = d
     \/ overflow /\ pc' = "crashed" /\ disk' = disk

Call_fs_set_search_path ==
  /\ CanCall
  /\ \E path \in SearchPaths :
       \E r \in {fs_set_path(search_path, path)} :
       /\ search_path' = r.val
       /\ Returns([NoCall EXCEPT !.op = "set_search_path", !.name = path,
                                 !.ret = r.ret], disk, FALSE)
  /\ UNCHANGED <<write_dir, open_files, cc_vars>>

Call_fs_set_write_dir ==
  /\ CanCall
  /\ \E path \in WriteDirs :
       \E r \in {fs_set_path(write_dir, path)} :
       /\ write_dir' = r.val
       /\ Returns([NoCall EXCEPT !.op = "set_write_dir", !.name = path,
                                 !.ret = r.ret], disk, FALSE)
  /\ UNCHANGED <<search_path, open_files, cc_vars>>

Call_fs_exists ==
  /\ CanCall
  /\ \E name \in Names :
       Returns([NoCall EXCEPT !.op = "exists", !.name = name,
                              !.ret = fs_exists(disk, search_path, name)],
               disk, _fs_check_search_path(disk, search_path, name).overflow)
  /\ UNCHANGED <<search_path, write_dir, open_files, cc_vars>>

Call_fs_get_info ==
  /\ CanCall
  /\ \E name \in Names :
       \E r \in {fs_get_info(disk, search_path, name)} :
       Returns([NoCall EXCEPT !.op = "get_info", !.name = name, !.ret = r.ret,
                              !.kind = r.kind, !.size = r.size],
               disk, r.overflow)
  /\ UNCHANGED <<search_path, write_dir, open_files, cc_vars>>

Call_fs_read ==
  /\ CanCall
  /\ \E name \in Names, flt \in ReadFaults :
       \E r \in {fs_read(disk, search_path, name, flt)} :
       /\ \E b \in Bytes :
            /\ r.uninit \/ b = 0
            /\ Returns([NoCall EXCEPT !.op = "read", !.name = name, !.flt = flt,
                          !.null = r.null, !.size = r.size,
                          !.data = IF r.uninit THEN [i \in 1..r.size |-> b]
                                   ELSE r.data],
                       disk, r.overflow)
       /\ open_files' = IF r.leak THEN open_files + 1 ELSE open_files
  /\ UNCHANGED <<search_path, write_dir, cc_vars>>

Call_fs_write ==
  /\ CanCall
  /\ \E name \in Names, data \in Payloads :
       \E flt \in WriteFaults(data) :
         \E r \in {fs_write(disk, write_dir, name, data, flt)} :
         Returns([NoCall EXCEPT !.op = "write", !.name = name, !.data = data,
                                !.flt = flt, !.ret = r.ret], r.disk, r.overflow)
  /\ UNCHANGED <<search_path, write_dir, open_files, cc_vars>>

Call_fs_append ==
  /\ CanCall
  /\ \E name \in Names, data \in Payloads :
       \E flt \in WriteFaults(data) :
         \E r \in {fs_append(disk, write_dir, name, data, flt)} :
         Returns([NoCall EXCEPT !.op = "append", !.name = name, !.data = data,
                                !.flt = flt, !.ret = r.ret], r.disk, r.overflow)
  /\ UNCHANGED <<search_path, write_dir, open_files, cc_vars>>

Call_fs_mkdir ==
  /\ CanCall
  /\ \E name \in Names :
       \E r \in {fs_mkdir(disk, write_dir, name)} :
       Returns([NoCall EXCEPT !.op = "mkdir", !.name = name, !.ret = r.ret],
               r.disk, r.overflow)
  /\ UNCHANGED <<search_path, write_dir, open_files, cc_vars>>

Call_fs_delete ==
  /\ CanCall
  /\ \E name \in Names :
       \E r \in {fs_delete(disk, write_dir, name)} :
       Returns([NoCall EXCEPT !.op = "delete", !.name = name, !.ret = r.ret],
               r.disk, r.overflow)
  /\ UNCHANGED <<search_path, write_dir, open_files, cc_vars>>

Next ==
  \/ Call_fs_set_search_path
  \/ Call_fs_set_write_dir
  \/ Call_fs_exists
  \/ Call_fs_get_info
  \/ Call_fs_read
  \/ Call_fs_write
  \/ Call_fs_append
  \/ Call_fs_mkdir
  \/ Call_fs_delete

Spec == Init /\ [][Next]_vars

(* ------------------------------------------------------------------ *)
(* _fs_concat_path on its own, over templates with no, one and two     *)
(* marks and names around the capacity                                 *)
(* ------------------------------------------------------------------ *)

Fill(c, n) == [i \in 1..n |-> c]

ConcatTemplates ==
  {<<>>, <<"?">>, TplHere, TplW,
   <<".", "/", "?", ".", "t">>,
   <<"?", "/", "?">>,
   <<"d", "i", "r">>,
   Fill("d", FS_MAX_PATH - 7) \o <<"?">>,
   Fill("d", FS_MAX_PATH - 2) \o <<"?">>}

ConcatNames ==
  {<<>>, NameFoo, NameFooBar, NameUp, NameLong,
   Fill("n", FS_MAX_PATH - 3), Fill("n", FS_MAX_PATH - 2),
   Fill("n", FS_MAX_PATH - 1), Fill("n", FS_MAX_PATH + 1)}

InitConcat ==
  /\ search_path = <<>>
  /\ write_dir = <<>>
  /\ disk = DiskEmpty
  /\ disk_before = disk
  /\ last = NoCall
  /\ nops = 0
  /\ pc = "ready"
  /\ open_files = 0
  /\ cc_path \in ConcatTemplates
  /\ cc_name \in ConcatNames
  /\ cc_out = [done |-> FALSE, err |-> FS_ESUCCESS, buf |-> <<>>, stored |-> 0]

Apply_fs_concat_path ==
  /\ ~cc_out.done
  /\ \E r \in {_fs_concat_path(cc_path, cc_name)} :
       cc_out' = [done |-> TRUE, err |-> r.err, buf |-> r.buf, stored |-> r.stored]
  /\ UNCHANGED <<cc_path, cc_name, api_vars>>

NextConcat == Apply_fs_concat_path

SpecConcat == InitConcat /\ [][NextConcat]_vars

TypeOK ==
  /\ pc \in {"ready", "crashed"}
  /\ nops \in 0..MaxOps
  /\ \A p \in DOMAIN disk : p = <<>> \/ IsDir(disk, Parent(p))

(* ------------------------------------------------------------------ *)
(* Vocabulary of the properties                                       *)
(* ------------------------------------------------------------------ *)

Ready == pc = "ready"

Mutating == {"write", "append", "mkdir", "delete"}

\* the places whose entry differs between two disks
Changed(d0, d1) ==
  {p \in (DOMAIN d0) \cup (DOMAIN d1) :
     p \notin DOMAIN d0 \/ p \notin DOMAIN d1 \/ d0[p] # d1[p]}

\* place p lies in the tree rooted at root (root itself included)
Under(root, p) == Len(p) >= Len(root) /\ SubSeq(p, 1, Len(root)) = root

\* the place a sequence of components names, read from directory d
RECURSIVE Canon(_, _, _)
Canon(d, comps, k) ==
  IF k > Len(comps) THEN d ELSE Canon(Step(d, comps[k]), comps, k + 1)

\* a template with exactly one mark, which is its last character
OneMark(t) ==
  t # <<>> /\ t[Len(t)] = FS_PATH_MARK /\ IndexFrom(t, FS_PATH_MARK, 1) = Len(t)

\* the write directory a one-mark template configures: the directory its
\* text before the mark names
WriteRoot(t) ==
  LET dirpart == SubSeq(t, 1, LastIndex(t, "/")) IN
  Canon(IF dirpart # <<>> /\ dirpart[1] = "/" THEN <<>> ELSE CWD,
        SplitFrom(dirpart, 1), 1)

\* the components of a logical name
Segments(name) == SplitFrom(name, 1)

\* a name of one or more ordinary segments: none empty, none "." or
\* "..", and short enough for any of the templates used
PlainName(name) ==
  /\ name # <<>>
  /\ Len(name) < 16
  /\ ~HasDotDot(name)
  /\ \A k \in 1..Len(Segments(name)) :
       Segments(name)[k] # <<>> /\ Segments(name)[k] # <<".">>

\* the place of the first k segments of a plain name under root
PrefixPlace(root, name, k) == root \o SubSeq(Segments(name), 1, k)

\* the configuration the round-trip properties are about: the search path
\* and the write directory are the same single one-mark template
SameTemplate == search_path = write_dir /\ OneMark(write_dir)

\* the write directory exists, or is missing in an existing directory
RootUsable(d, root) ==
  \/ IsDir(d, root)
  \/ ~Exists(d, root) /\ IsDir(d, Parent(root))

(* ------------------------------------------------------------------ *)
(* C1  Sandbox                                                        *)
(* ------------------------------------------------------------------ *)

\* C1: after fs_write, fs_append, fs_mkdir or fs_delete with any logical
\* name, every place that was created, modified or removed lies under the
\* configured write directory.
C1_Sandbox ==
  (last.op \in Mutating /\ OneMark(write_dir))
    => \A p \in Changed(disk_before, disk) : Under(WriteRoot(write_dir), p)

(* ------------------------------------------------------------------ *)
(* C10  Path capacity                                                 *)
(* ------------------------------------------------------------------ *)

\* C10: for every template and name, _fs_concat_path stores no byte at an
\* index at or beyond FS_MAX_PATH of the path buffer, reports FS_ETOOLONG
\* when the accumulated length reaches the maximum, and every path it
\* returns with success is shorter than FS_MAX_PATH.
C10_Capacity ==
  cc_out.done =>
    /\ cc_out.stored <= FS_MAX_PATH
    /\ cc_out.err \in {FS_ESUCCESS, FS_ETOOLONG}
    /\ cc_out.err = FS_ESUCCESS => Len(cc_out.buf) < FS_MAX_PATH

(* ------------------------------------------------------------------ *)
(* C2  First match wins                                               *)
(* ------------------------------------------------------------------ *)

\* the templates of the search path whose candidate for name exists
Existing(d, sp, name) ==
  {k \in 1..Len(_fs_get_template(sp)) :
     LET c == _fs_concat_path(_fs_get_template(sp)[k], name)
     IN c.err = FS_ESUCCESS /\ os_stat(d, c.buf).ok}

\* the templates of the search path whose substitution of name is too long
TooLong(sp, name) ==
  {k \in 1..Len(_fs_get_template(sp)) :
     _fs_concat_path(_fs_get_template(sp)[k], name).err = FS_ETOOLONG}

\* the resolver's answer for name is that of template k
Matches(d, sp, name, k) ==
  LET r == _fs_check_search_path(d, sp, name) IN
  /\ r.err = FS_ESUCCESS
  /\ r.tpl = k
  /\ r.buf = _fs_concat_path(_fs_get_template(sp)[k], name).buf
  /\ r.st = os_stat(d, r.buf)

TargetPath == _fs_concat_path(write_dir, last.name).buf

\* the place that string names, whether or not anything is there
TargetPlace ==
  Canon(IF TargetPath # <<>> /\ TargetPath[1] = "/" THEN <<>> ELSE CWD,
        SplitFrom(TargetPath, 1), 1)

\* the last call was op, it returned, and its path fitted the buffer
Did(op) ==
  /\ Ready
  /\ last.op = op
  /\ write_dir # <<>>
  /\ _fs_concat_path(write_dir, last.name).err = FS_ESUCCESS

\* what fs_read gives for name when nothing fails in the system
ReadNow(d, name) == fs_read(d, search_path, name, NoFault)

\* the bytes the file of the last call held before the call, none if it
\* was not there
OldBytes ==
  IF IsReg(disk_before, TargetPlace) THEN disk_before[TargetPlace].data ELSE <<>>

(* ------------------------------------------------------------------ *)
(* C3  Write/read round trip                                          *)
(* ------------------------------------------------------------------ *)

\* C3: with the search path and the write directory set to the same single
\* template, once fs_write(name, P) has returned FS_ESUCCESS, fs_read(name)
\* returns a buffer of exactly Len(P) bytes equal to P, whatever the file
\* held before the write.
C3_RoundTrip ==
  (Did("write") /\ last.ret = FS_ESUCCESS /\ SameTemplate) =>
    \A r \in {ReadNow(disk, last.name)} :
      /\ ~r.null
      /\ ~r.uninit
      /\ r.size = Len(last.data)
      /\ r.data = last.data

\* a successful fs_write of a payload shorter than, and different from,
\* what the file held before
C3_Witness ==
  /\ Did("write")
  /\ last.ret = FS_ESUCCESS
  /\ SameTemplate
  /\ IsReg(disk_before, TargetPlace)
  /\ Len(OldBytes) > Len(last.data)
  /\ SubSeq(OldBytes, 1, Len(last.data)) # last.data
  /\ ReadNow(disk, last.name).data = last.data

(* ------------------------------------------------------------------ *)
(* C4  Append concatenates                                            *)
(* ------------------------------------------------------------------ *)

\* fs_append(name, B) on disk d, then fs_read(name), gives exactly bytes
AppendThenRead(d, name, B, bytes) ==
  \A a \in {fs_append(d, write_dir, name, B, NoFault)} :
    /\ a.ret = FS_ESUCCESS
    /\ ~a.overflow
    /\ \A r \in {ReadNow(a.disk, name)} :
         ~r.null /\ ~r.uninit /\ r.size = Len(bytes) /\ r.data = bytes

\* C4: with the search path and the write directory set to the same single
\* template, a successful fs_append(name, A) leaves fs_read(name) returning
\* the bytes the file held before followed by A; and when the file was
\* absent before, a further fs_append(name, B) succeeds and fs_read(name)
\* then returns exactly A followed by B, of size Len(A) + Len(B).
C4_AppendConcat ==
  (Did("append") /\ last.ret = FS_ESUCCESS /\ SameTemplate) =>
    /\ \A r \in {ReadNow(disk, last.name)} :
         /\ ~r.null
         /\ ~r.uninit
         /\ r.size = Len(OldBytes) + Len(last.data)
         /\ r.data = OldBytes \o last.data
    /\ ~Exists(disk_before, TargetPlace) =>
         \A B \in Payloads :
           AppendThenRead(disk, last.name, B, last.data \o B)

\* a successful fs_append(name, A) to a file that was absent, after which
\* fs_append(name, B) with B # A gives A followed by B
C4_Witness ==
  /\ Did("append")
  /\ last.ret = FS_ESUCCESS
  /\ SameTemplate
  /\ ~Exists(disk_before, TargetPlace)
  /\ fs_exists(disk_before, search_path, last.name) = FS_EFAILURE
  /\ \E B \in Payloads \ {last.data} :
       ReadNow(fs_append(disk, write_dir, last.name, B, NoFault).disk,
               last.name).data = last.data \o B

(* ------------------------------------------------------------------ *)
(* C5  Unconfigured write directory                                   *)
(* ------------------------------------------------------------------ *)

\* C5: whenever the write directory is empty, fs_write, fs_append, fs_mkdir
\* and fs_delete return FS_ENOWRITEDIR for every logical name, before any
\* other check (the name is not substituted, so no length error and no
\* store outside the buffer), and leave the filesystem unchanged.
C5_NoWriteDir ==
  (write_dir = <<>> /\ last.op \in Mutating) =>
    /\ Ready
    /\ last.ret = FS_ENOWRITEDIR
    /\ disk = disk_before

\* fs_write of a name longer than the path buffer, made with no write
\* directory, returned FS_ENOWRITEDIR
C5_Witness ==
  /\ write_dir = <<>>
  /\ last.op = "write"
  /\ last.name = NameLong
  /\ last.ret = FS_ENOWRITEDIR

(* ------------------------------------------------------------------ *)
(* C6  mkdir is not idempotent                                        *)
(* ------------------------------------------------------------------ *)

\* C6: fs_mkdir(name) on a name whose leaf directory already exists returns
\* FS_EMKDIRFAIL and leaves the directory in place; a second fs_mkdir of the
\* same name never succeeds, and after a successful first call it returns
\* FS_EMKDIRFAIL and changes nothing.
C6_MkdirNotIdempotent ==
  Did("mkdir") =>
    /\ IsDir(disk_before, TargetPlace) =>
         /\ last.ret = FS_EMKDIRFAIL
         /\ disk = disk_before
    /\ \A m \in {fs_mkdir(disk, write_dir, last.name)} :
         /\ m.ret # FS_ESUCCESS
         /\ last.ret = FS_ESUCCESS =>
              /\ m.ret = FS_EMKDIRFAIL
              /\ m.disk = disk
              /\ IsDir(disk, TargetPlace)

\* fs_mkdir("foo") under w/? returned FS_EMKDIRFAIL on a directory w/foo
\* that only an earlier fs_mkdir can have made
C6_Witness ==
  /\ Did("mkdir")
  /\ write_dir = TplW
  /\ last.name = NameFoo
  /\ IsDir(disk_before, TargetPlace)
  /\ TargetPlace = CWD \o << <<"w">>, NameFoo>>
  /\ last.ret = FS_EMKDIRFAIL
  /\ IsDir(disk, TargetPlace)

(* ------------------------------------------------------------------ *)
(* C7  mkdir creates the whole tree                                   *)
(* ------------------------------------------------------------------ *)

\* the last call named several plain segments under a usable write directory
DeepName ==
  /\ OneMark(write_dir)
  /\ PlainName(last.name)
  /\ Len(Segments(last.name)) > 1
  /\ RootUsable(disk_before, WriteRoot(write_dir))

\* C7: fs_mkdir of a multi-segment name, issued when none of its ancestors
\* nor the leaf exists under the write directory, returns FS_ESUCCESS, and
\* afterwards every prefix of the name is a directory.
C7_MkdirTree ==
  (Did("mkdir") /\ DeepName
     /\ ~Exists(disk_before, PrefixPlace(WriteRoot(write_dir), last.name, 1))) =>
    /\ last.ret = FS_ESUCCESS
    /\ \A k \in 1..Len(Segments(last.name)) :
         IsDir(disk, PrefixPlace(WriteRoot(write_dir), last.name, k))

\* fs_mkdir("foo/bar") under w/? with w itself missing made w, w/foo and
\* w/foo/bar
C7_Witness ==
  /\ Did("mkdir")
  /\ DeepName
  /\ write_dir = TplW
  /\ ~Exists(disk_before, WriteRoot(write_dir))
  /\ last.ret = FS_ESUCCESS
  /\ Cardinality(Changed(disk_before, disk)) = 3

(* ------------------------------------------------------------------ *)
(* C8  Write and append create missing parent directories             *)
(* ------------------------------------------------------------------ *)

\* every ancestor of the name is missing or a directory, and the leaf is
\* missing or a regular file
TreeFree ==
  \A k \in 1..Len(Segments(last.name)) :
    LET p == PrefixPlace(WriteRoot(write_dir), last.name, k) IN
    Exists(disk_before, p) =>
      IF k < Len(Segments(last.name)) THEN IsDir(disk_before, p)
      ELSE IsReg(disk_before, p)

\* the name made of the first segment of name
FirstSegment(name) == SubSeq(name, 1, IndexFrom(name, "/", 1) - 1)

\* C8: fs_write or fs_append to a name with directory segments, with no
\* failure of the system, returns FS_ESUCCESS both when the ancestor
\* directories are missing and when they exist, and afterwards every
\* ancestor is a directory (fs_get_info says so) and the file is a regular
\* file.
C8_ParentsCreated ==
  ((Did("write") \/ Did("append")) /\ last.flt = NoFault /\ DeepName /\ TreeFree) =>
    /\ last.ret = FS_ESUCCESS
    /\ \A k \in 1..Len(Segments(last.name)) :
         LET p == PrefixPlace(WriteRoot(write_dir), last.name, k) IN
         IF k < Len(Segments(last.name)) THEN IsDir(disk, p) ELSE IsReg(disk, p)
    /\ SameTemplate =>
         \A i \in {fs_get_info(disk, search_path, FirstSegment(last.name))} :
           i.ret = FS_ESUCCESS /\ i.kind = "dir"

\* fs_append("foo/bar") succeeded with foo missing before the call
C8_Witness ==
  /\ Did("append")
  /\ last.flt = NoFault
  /\ DeepName
  /\ SameTemplate
  /\ ~Exists(disk_before, PrefixPlace(WriteRoot(write_dir), last.name, 1))
  /\ last.ret = FS_ESUCCESS
  /\ IsDir(disk, PrefixPlace(WriteRoot(write_dir), last.name, 1))
  /\ IsReg(disk, TargetPlace)

(* ------------------------------------------------------------------ *)
(* C9  Delete refuses a non-empty directory                           *)
(* ------------------------------------------------------------------ *)

\* fs_delete of every child of directory p of disk d (each a file or an
\* empty directory), by its name under the write directory, then of p
\* itself by name: the results and the disk left
RECURSIVE DeleteAll(_, _)
DeleteAll(d, names) ==
  IF names = <<>> THEN [ok |-> TRUE, disk |-> d]
  ELSE Bind(fs_delete(d, write_dir, names[1]),
            LAMBDA x :
              IF x.ret # FS_ESUCCESS THEN [ok |-> FALSE, disk |-> x.disk]
              ELSE DeleteAll(x.disk, SubSeq(names, 2, Len(names))))

\* the names, under the write directory, of the children of the directory
\* the last call named, in some order
ChildNames ==
  LET cs == Children(disk, TargetPlace)
      f  == CHOOSE g \in [1..Cardinality(cs) -> cs] :
              \A i, j \in 1..Cardinality(cs) : i # j => g[i] # g[j]
  IN [i \in 1..Cardinality(cs) |-> last.name \o <<"/">> \o f[i][Len(f[i])]]

\* C9: fs_delete on a directory that still has a child returns FS_EREMOVE
\* and leaves the directory and its children in place, fs_exists on it
\* still succeeding; once each child has been deleted, fs_delete on the
\* directory returns FS_ESUCCESS and fs_exists on it returns FS_EFAILURE.
C9_DeleteNonEmpty ==
  (Did("delete") /\ OneMark(write_dir) /\ PlainName(last.name)
     /\ IsDir(disk_before, TargetPlace)) =>
    /\ Children(disk_before, TargetPlace) # {} =>
         /\ last.ret = FS_EREMOVE
         /\ disk = disk_before
         /\ SameTemplate => fs_exists(disk, search_path, last.name) = FS_ESUCCESS
         /\ (\A c \in Children(disk, TargetPlace) : Children(disk, c) = {}) =>
              \A x \in {DeleteAll(disk, ChildNames \o <<last.name>>)} :
                /\ x.ok
                /\ ~Exists(x.disk, TargetPlace)
                /\ SameTemplate =>
                     fs_exists(x.disk, search_path, last.name) = FS_EFAILURE
    /\ Children(disk_before, TargetPlace) = {} =>
         /\ last.ret = FS_ESUCCESS
         /\ ~Exists(disk, TargetPlace)
         /\ SameTemplate => fs_exists(disk, search_path, last.name) = FS_EFAILURE

\* fs_delete("foo") was refused with FS_EREMOVE because foo/bar was there
C9_Witness ==
  /\ Did("delete")
  /\ SameTemplate
  /\ last.name = NameFoo
  /\ IsDir(disk_before, TargetPlace)
  /\ Children(disk_before, TargetPlace) # {}
  /\ last.ret = FS_EREMOVE
  /\ fs_exists(disk, search_path, last.name) = FS_ESUCCESS

(* ------------------------------------------------------------------ *)
(* C11  No file handle leaks                                          *)
(* ------------------------------------------------------------------ *)

\* C11: after any sequence of calls, including calls that fail at any
\* stage (resolution, fopen, allocation of the buffer, short write), every
\* FILE the library opened during a call has been closed when the call
\* returns.
C11_NoLeak == open_files = 0

(* ------------------------------------------------------------------ *)
(* C12  Substitution is a global find-and-replace                     *)
(* ------------------------------------------------------------------ *)

\* the template t from position i on, each mark replaced by name and every
\* other character kept
RECURSIVE GSubFrom(_, _, _)
GSubFrom(t, i, name) ==
  Bind(IndexFrom(t, FS_PATH_MARK, i),
       LAMBDA k :
         IF k = 0 THEN SubSeq(t, i, Len(t))
         ELSE SubSeq(t, i, k - 1) \o name \o GSubFrom(t, k + 1, name))

\* C12: for every template and name whose result fits the capacity,
\* _fs_concat_path succeeds and leaves in buf the template with each mark
\* replaced by the name and all its other characters kept, in order.
C12_GlobalSubst ==
  (cc_out.done /\ Len(GSubFrom(cc_path, 1, cc_name)) < FS_MAX_PATH) =>
    /\ cc_out.err = FS_ESUCCESS
    /\ cc_out.buf = GSubFrom(cc_path, 1, cc_name)

(* ------------------------------------------------------------------ *)
(* C13  Read reports every failure as null                            *)
(* ------------------------------------------------------------------ *)

\* the place the path string s names on disk d
PlaceOf(d, s) == Resolve(d, s).at

\* C13: fs_read returns NULL whenever the resolver fails and whenever
\* opening or reading the matched path fails after a successful probe (a
\* directory can be opened but not read); a non-null result is a buffer of
\* exactly the probed size that holds the full contents of the file.
C13_ReadNull ==
  (Ready /\ last.op = "read") =>
    \A p \in {_fs_check_search_path(disk, search_path, last.name)} :
      /\ p.err # FS_ESUCCESS => last.null
      /\ (p.err = FS_ESUCCESS /\ last.flt.kind = "open") => last.null
      /\ (p.err = FS_ESUCCESS /\ ~IsReg(disk, PlaceOf(disk, p.buf))) => last.null
      /\ ~last.null =>
           /\ p.err = FS_ESUCCESS
           /\ last.size = p.st.size
           /\ IsReg(disk, PlaceOf(disk, p.buf))
           /\ last.data = disk[PlaceOf(disk, p.buf)].data

(* ------------------------------------------------------------------ *)
(* C14  A traversal-rejected write has no effect                      *)
(* ------------------------------------------------------------------ *)

\* C14: when fs_write or fs_append returns FS_EWRITEFAIL because the path
\* it built contains "..", the filesystem is exactly as it was before the
\* call: no file created or truncated, no directory created.
C14_RejectedNoEffect ==
  ((Did("write") \/ Did("append")) /\ HasDotDot(TargetPath)
     /\ last.ret = FS_EWRITEFAIL) =>
    disk = disk_before

(* ------------------------------------------------------------------ *)
(* C15  exists and get_info agree                                     *)
(* ------------------------------------------------------------------ *)

\* C15: for every name, configuration and filesystem state, fs_get_info
\* returns the code fs_exists returns for the same name, one of
\* FS_ESUCCESS, FS_ENOSEARCHPATH and FS_EFAILURE.
C15_ExistsInfoAgree ==
  (Ready /\ last.op = "get_info") =>
    /\ last.ret = fs_exists(disk, search_path, last.name)
    /\ last.ret \in {FS_ESUCCESS, FS_ENOSEARCHPATH, FS_EFAILURE}

====
